---- MODULE Spec2Model ----
(***************************************************************************)
(* Seller-credit optimizer: the scenario compute engine (lib/mortgage.ts)  *)
(* and the FHA MIP resolver (lib/fha.ts).                                  *)
(*                                                                         *)
(* JavaScript numbers are modelled by exact rationals over unbounded       *)
(* naturals.  A natural is a little-endian sequence of limbs in base       *)
(* 1000 without  leading zero limbs; a number is a record                  *)
(*   [neg |-> BOOLEAN, n |-> natural, d |-> natural]                       *)
(* standing for (+/-) n / d.  A zero denominator stands for the values a   *)
(* division by zero produces: n # 0 is +/-Infinity and n = 0 is NaN.       *)
(* An optional field is a sequence of length 0 (undefined) or 1.           *)
(*                                                                         *)
(* The program computes in IEEE 754 doubles.  The variable arithmetic says *)
(* how a run of the model computes: "double" rounds the result of every    *)
(* operation and every decimal literal to the nearest double, ties to      *)
(* even, as the program does (for magnitudes in the normal range);         *)
(* "real" leaves the results exact, which is what the doubles approximate  *)
(* and what allows terms of several months, where the outcome of Math.pow  *)
(* is left to the implementation.                                          *)
(***************************************************************************)
EXTENDS Integers, Sequences, FiniteSets, TLC

VARIABLE arithmetic  \* "double" or "real"

Base == 1000

(* ---------------- naturals of unbounded size ---------------- *)

Limb(a, i) == IF i >= 1 /\ i <= Len(a) THEN a[i] ELSE 0

\* a without its leading zero limbs
BNorm(a) ==
  LET n == Len(a)
      z == CHOOSE k \in 0..n :
             /\ k = n \/ a[n - k] # 0
             /\ \A j \in 0..(k - 1) : a[n - j] = 0
  IN SubSeq(a, 1, n - z)

RECURSIVE BFromInt(_)
BFromInt(i) ==
  IF i = 0 THEN <<>> ELSE <<i % Base>> \o BFromInt(i \div Base)

RECURSIVE BToInt(_)
BToInt(a) ==
  IF a = <<>> THEN 0 ELSE a[1] + Base * BToInt(Tail(a))

\* the carry into limb i of the limb sums s: it comes from the nearest lower
\* limb whose sum is not Base - 1
Carry(s, i) ==
  LET m == CHOOSE m \in 1..i :
             /\ m = i \/ s[i - m] # Base - 1
             /\ \A k \in 1..(m - 1) : s[i - k] = Base - 1
  IN m < i /\ s[i - m] >= Base

Carried(s, n) ==
  SubSeq([i \in 1..n |-> (s[i] + IF Carry(s, i) THEN 1 ELSE 0) % Base], 1, n)

LimbSums(a, b, n) == SubSeq([i \in 1..n |-> Limb(a, i) + Limb(b, i)], 1, n)

\* limb-wise addition
BAdd(a, b) ==
  IF a = <<>> THEN b
  ELSE IF b = <<>> THEN a
  ELSE BNorm(Carried(LimbSums(a, b, 1 + IF Len(a) > Len(b) THEN Len(a) ELSE Len(b)),
                     1 + IF Len(a) > Len(b) THEN Len(a) ELSE Len(b)))

\* the borrow from limb i of the limb differences d, found the same way
Borrow(d, i) ==
  LET m == CHOOSE m \in 1..i :
             /\ m = i \/ d[i - m] # 0
             /\ \A k \in 1..(m - 1) : d[i - k] = 0
  IN m < i /\ d[i - m] < 0

Borrowed(d, n) ==
  SubSeq([i \in 1..n |-> (d[i] - (IF Borrow(d, i) THEN 1 ELSE 0) + Base) % Base], 1, n)

\* limb-wise subtraction for a >= b
BSub(a, b) ==
  IF b = <<>> THEN a
  ELSE BNorm(Borrowed(SubSeq([i \in 1..Len(a) |-> a[i] - Limb(b, i)], 1, Len(a)),
                      Len(a)))

\* the first limb from the top where a and b, of one length, differ
TopDifference(a, b, n) ==
  CHOOSE k \in 0..(n - 1) :
    /\ a[n - k] # b[n - k]
    /\ \A j \in 0..(k - 1) : a[n - j] = b[n - j]

\* -1, 0 or 1 as a is below, equal to or above b
BCmp(a, b) ==
  IF Len(a) # Len(b) THEN (IF Len(a) < Len(b) THEN -1 ELSE 1)
  ELSE IF a = b THEN 0
  ELSE IF a[Len(a) - TopDifference(a, b, Len(a))]
            < b[Len(a) - TopDifference(a, b, Len(a))] THEN -1 ELSE 1

\* the sum of a[i] * b[k + 1 - i] for i in lo..hi
RECURSIVE Conv(_, _, _, _, _)
Conv(a, b, k, lo, hi) ==
  IF lo > hi THEN 0
  ELSE IF lo = hi THEN a[lo] * b[k + 1 - lo]
  ELSE Conv(a, b, k, lo, (lo + hi) \div 2)
         + Conv(a, b, k, ((lo + hi) \div 2) + 1, hi)

\* the column sums of the schoolbook product
Columns(a, b, la, lb) ==
  SubSeq([k \in 1..(la + lb - 1) |->
            Conv(a, b, k, IF k + 1 - lb > 1 THEN k + 1 - lb ELSE 1,
                 IF k < la THEN k ELSE la)], 1, la + lb - 1)

\* the column sums c after one round of carries: each limb keeps its lowest
\* base-Base digit and takes what the limb below has above that digit
Carries(c, n, m) ==
  SubSeq([k \in 1..m |->
            (IF k <= n THEN c[k] % Base ELSE 0)
              + (IF k > 1 THEN c[k - 1] \div Base ELSE 0)], 1, m)

\* the number whose limbs are the column sums c
RECURSIVE FromColumns(_, _)
FromColumns(c, n) ==
  IF \A k \in 1..n : c[k] < Base THEN BNorm(c)
  ELSE FromColumns(Carries(c, n, IF c[n] >= Base THEN n + 1 ELSE n),
                   IF c[n] >= Base THEN n + 1 ELSE n)

BMul(a, b) ==
  IF a = <<>> \/ b = <<>> THEN <<>>
  ELSE IF a = <<1>> THEN b
  ELSE IF b = <<1>> THEN a
  ELSE FromColumns(Columns(a, b, Len(a), Len(b)), Len(a) + Len(b) - 1)

\* whether k * b <= r
Fits(b, k, r) == BCmp(BMul(b, BFromInt(k)), r) <= 0

\* the limbs of a from limb k up, as an integer
Leading(a, k) == IF Len(a) < k THEN 0 ELSE BToInt(SubSeq(a, k, Len(a)))

\* est is the quotient of r by b or one above it
Below(r, b, est) == IF Fits(b, est, r) THEN est ELSE est - 1

\* the quotient of r by b for r < Base * b: the quotient of what their limbs
\* from the second highest limb of b up say
QuotientLimb(r, b) ==
  Below(r, b, Leading(r, IF Len(b) > 1 THEN Len(b) - 1 ELSE 1)
                \div Leading(b, IF Len(b) > 1 THEN Len(b) - 1 ELSE 1))

PutLimb(q, r, b, d) ==
  IF d = 0 THEN [q |-> BNorm(<<0>> \o q), r |-> r]
  ELSE [q |-> <<d>> \o q, r |-> BSub(r, BMul(b, BFromInt(d)))]

\* one limb of the quotient: h is the quotient and remainder of the limbs
\* above the lowest one, low
DivStep(h, low, b) ==
  IF h.r = <<>> /\ low = 0 THEN [q |-> BNorm(<<0>> \o h.q), r |-> <<>>]
  ELSE PutLimb(h.q, <<low>> \o h.r, b, QuotientLimb(<<low>> \o h.r, b))

\* quotient and remainder of a by b > 0, by long division
RECURSIVE BDivMod(_, _)
BDivMod(a, b) ==
  IF BCmp(a, b) < 0 THEN [q |-> <<>>, r |-> a]
  ELSE DivStep(BDivMod(Tail(a), b), a[1], b)

(* ---------------- JavaScript numbers as exact rationals ---------------- *)

Num(neg, n, d) ==
  [neg |-> IF n = <<>> THEN FALSE ELSE neg,
   n   |-> IF d = <<>> /\ n # <<>> THEN <<1>> ELSE n,
   d   |-> d]

(* ---------------- rounding to a double ---------------- *)

BSquare(a) == BMul(a, a)

Twice(a) == BAdd(a, a)

\* 2^k
RECURSIVE BPow2(_)
BPow2(k) ==
  IF k <= 30 THEN BFromInt(2^k)
  ELSE IF k % 2 = 0 THEN BSquare(BPow2(k \div 2))
  ELSE Twice(BPow2(k - 1))

\* the number of decimal digits of a > 0
DecLen(a) ==
  3 * (Len(a) - 1)
    + (IF a[Len(a)] < 10 THEN 1 ELSE IF a[Len(a)] < 100 THEN 2 ELSE 3)

\* an integer L with L <= log2(n/d) < L + 8, g being how many digits n has
\* more than d
Log2From(g) ==
  IF g - 1 >= 0 THEN ((g - 1) * 33219) \div 10000
  ELSE -((((1 - g) * 33220) + 9999) \div 10000)

Log2Below(n, d) == Log2From(DecLen(n) - DecLen(d))

ShortStep(h, low, c) ==
  IF h.r = 0 /\ low = 0 THEN [q |-> BNorm(<<0>> \o h.q), r |-> 0]
  ELSE [q |-> BNorm(<<(h.r * Base + low) \div c>> \o h.q),
        r |-> (h.r * Base + low) % c]

\* quotient and remainder of a by the small integer c
RECURSIVE ShortDivMod(_, _)
ShortDivMod(a, c) ==
  IF a = <<>> THEN [q |-> <<>>, r |-> 0]
  ELSE ShortStep(ShortDivMod(Tail(a), c), a[1], c)

\* a divided by each of the small integers cs in turn
RECURSIVE ShortQuotient(_, _)
ShortQuotient(a, cs) ==
  IF cs = <<>> THEN a
  ELSE ShortQuotient(ShortDivMod(a, cs[1]).q, Tail(cs))

\* a \div 2^52, in three short divisions
High(a) == BToInt(ShortQuotient(a, <<1048576, 1048576, 4096>>))

\* the number of bits q has beyond 53, hi being q \div 2^52 < 512
ExtraBits(hi) ==
  IF hi < 2 THEN 0 ELSE IF hi < 4 THEN 1 ELSE IF hi < 8 THEN 2
  ELSE IF hi < 16 THEN 3 ELSE IF hi < 32 THEN 4 ELSE IF hi < 64 THEN 5
  ELSE IF hi < 128 THEN 6 ELSE IF hi < 256 THEN 7 ELSE 8

IntPow2(t) == <<1, 2, 4, 8, 16, 32, 64, 128, 256>>[t + 1]

\* -1, 0 or 1 as what was cut off, rem / 2^t plus r / (dd * 2^t), is below,
\* equal to or above a half
CutOff(rem, t, r, dd) ==
  IF t = 0 THEN BCmp(Twice(r), dd)
  ELSE IF rem # IntPow2(t - 1) THEN (IF rem > IntPow2(t - 1) THEN 1 ELSE -1)
  ELSE IF r # <<>> THEN 1 ELSE 0

\* whether the 53-bit m is rounded up: above a half goes up, a half goes to
\* the even neighbour
RoundUp(m, half) == half > 0 \/ (half = 0 /\ m[1] % 2 = 1)

\* The double nearest to a finite a # 0 is found in steps, each adding what
\* it finds to the record e of what the steps before it found.

\* s: a * 2^s has 53 to 61 bits before the binary point
Exponent(a) == a @@ [s |-> 52 - Log2Below(a.n, a.d)]

\* p: 2^s for s >= 0 and 2^-s otherwise
Power(e) == e @@ [p |-> BPow2(IF e.s >= 0 THEN e.s ELSE -e.s)]

\* x: n * 2^s for s >= 0 and d * 2^-s otherwise
Shifted(e) == e @@ [x |-> BMul(IF e.s >= 0 THEN e.n ELSE e.d, e.p)]

\* h: the quotient and the remainder of n * 2^s by d
Divided(e) ==
  e @@ [h |-> BDivMod(IF e.s >= 0 THEN e.x ELSE e.n,
                      IF e.s >= 0 THEN e.d ELSE e.x)]

\* t: the number of bits the quotient has beyond 53
Bits(e) == e @@ [t |-> ExtraBits(High(e.h.q))]

\* sd: the highest 53 bits of the quotient, and the t bits below them
Mantissa(e) == e @@ [sd |-> ShortDivMod(e.h.q, IntPow2(e.t))]

\* half: what was cut off against a half
Remainder(e) ==
  e @@ [half |-> CutOff(e.sd.r, e.t, e.h.r, IF e.s >= 0 THEN e.d ELSE e.x)]

\* (+/-) m * 2^(t - s), m being the 53 bits rounded
Nearest(e) ==
  Num(e.neg,
      BMul(BMul(IF RoundUp(e.sd.q, e.half) THEN BAdd(e.sd.q, <<1>>) ELSE e.sd.q,
                <<IntPow2(e.t)>>),
           IF e.s >= 0 THEN <<1>> ELSE e.p),
      IF e.s >= 0 THEN e.p ELSE <<1>>)

\* the double nearest to a, ties to even
RoundDouble(a) ==
  IF a.d = <<>> \/ a.n = <<>> THEN a
  ELSE Nearest(Remainder(Mantissa(Bits(Divided(Shifted(Power(Exponent(a))))))))

\* the value the program holds for the exact result a
fl(a) == IF arithmetic = "double" THEN RoundDouble(a) ELSE a

RFromInt(i) == Num(i < 0, BFromInt(IF i < 0 THEN -i ELSE i), <<1>>)

\* the decimal literal p/q
RFrac(p, q) == fl(Num(p < 0, BFromInt(IF p < 0 THEN -p ELSE p), BFromInt(q)))

Zero == RFromInt(0)
One == RFromInt(1)
Infinity == Num(FALSE, <<1>>, <<>>)
NaN == Num(FALSE, <<>>, <<>>)

IsNaN(a) == a.n = <<>> /\ a.d = <<>>
isFinite(a) == a.d # <<>>

RNeg(a) == Num(~a.neg, a.n, a.d)

\* the sum of two signed magnitudes over the common denominator d
SignedSum(an, am, bn, bm, d) ==
  IF an = bn THEN Num(an, BAdd(am, bm), d)
  ELSE IF BCmp(am, bm) >= 0 THEN Num(an, BSub(am, bm), d)
  ELSE Num(bn, BSub(bm, am), d)

ExactSum(a, b) ==
  SignedSum(a.neg, IF a.d = b.d THEN a.n ELSE BMul(a.n, b.d),
            b.neg, IF a.d = b.d THEN b.n ELSE BMul(b.n, a.d),
            IF a.d = b.d THEN a.d ELSE BMul(a.d, b.d))

ExactProduct(a, b) == Num(a.neg # b.neg, BMul(a.n, b.n), BMul(a.d, b.d))

ExactQuotient(a, b) == Num(a.neg # b.neg, BMul(a.n, b.d), BMul(a.d, b.n))

\* a + b, a - b, a * b and a / b of the language
RAdd(a, b) == IF IsNaN(a) \/ IsNaN(b) THEN NaN ELSE fl(ExactSum(a, b))

RSub(a, b) == RAdd(a, RNeg(b))

RMul(a, b) == IF IsNaN(a) \/ IsNaN(b) THEN NaN ELSE fl(ExactProduct(a, b))

RDiv(a, b) == IF IsNaN(a) \/ IsNaN(b) THEN NaN ELSE fl(ExactQuotient(a, b))

Sign(x) == IF x.n = <<>> THEN 0 ELSE IF x.neg THEN -1 ELSE 1

\* -1, 0 or 1 as a is below, equal to or above b; neither is NaN
RCmp(a, b) ==
  IF a.d = <<>> /\ b.d = <<>>
  THEN (IF a.neg = b.neg THEN 0 ELSE IF a.neg THEN -1 ELSE 1)
  ELSE Sign(ExactSum(a, RNeg(b)))

\* the comparison operators of the language: false when an operand is NaN
RLt(a, b) == ~IsNaN(a) /\ ~IsNaN(b) /\ RCmp(a, b) < 0
RGt(a, b) == ~IsNaN(a) /\ ~IsNaN(b) /\ RCmp(a, b) > 0
RLe(a, b) == ~IsNaN(a) /\ ~IsNaN(b) /\ RCmp(a, b) <= 0
RGe(a, b) == ~IsNaN(a) /\ ~IsNaN(b) /\ RCmp(a, b) >= 0
REq(a, b) == ~IsNaN(a) /\ ~IsNaN(b) /\ RCmp(a, b) = 0

MathMax(a, b) ==
  IF IsNaN(a) \/ IsNaN(b) THEN NaN ELSE IF RCmp(a, b) >= 0 THEN a ELSE b

MathMin(a, b) ==
  IF IsNaN(a) \/ IsNaN(b) THEN NaN ELSE IF RCmp(a, b) <= 0 THEN a ELSE b

\* the least integer not below the non-negative n/d, h being BDivMod(n, d)
CeilOf(h) == IF h.r = <<>> THEN h.q ELSE BAdd(h.q, <<1>>)

MathCeil(a) ==
  IF ~isFinite(a) THEN a
  ELSE IF a.neg THEN Num(TRUE, BDivMod(a.n, a.d).q, <<1>>)
  ELSE Num(FALSE, CeilOf(BDivMod(a.n, a.d)), <<1>>)

MathFloor(a) == IF ~isFinite(a) THEN a ELSE RNeg(MathCeil(RNeg(a)))

Half == Num(FALSE, <<1>>, <<2>>)

\* Math.round: the nearest integer, a half going up
MathRound(a) == MathFloor(ExactSum(a, Half))

Square(a) == ExactProduct(a, a)

\* a to the integer power k >= 0
RECURSIVE ExactPower(_, _)
ExactPower(a, k) ==
  IF k = 0 THEN One
  ELSE IF k % 2 = 0 THEN Square(ExactPower(a, k \div 2))
  ELSE ExactProduct(a, ExactPower(a, k - 1))

\* Math.pow for an integer exponent k >= 0
MathPow(a, k) == fl(ExactPower(a, k))

\* the magnitude of a rounded to a multiple of 1/scale, a half going up
Rounded(a, scale) ==
  Num(a.neg,
      MathFloor(ExactSum(ExactProduct(Num(FALSE, a.n, a.d), scale), Half)).n,
      scale.n)

\* Number(a.toFixed(f)): the nearest multiple of 10^-f, a half going away
\* from zero, and then the double nearest to that
toFixed(a, f) ==
  IF ~isFinite(a) THEN a ELSE fl(Rounded(a, ExactPower(RFromInt(10), f)))

\* the decimal text of a.toFixed(f) for a finite a >= 0 and f >= 1
RECURSIVE Digits(_, _)
Digits(i, f) ==
  IF f = 0 THEN "" ELSE Digits(i \div 10, f - 1) \o ToString(i % 10)

FixedText(h, f) == ToString(BToInt(h.q)) \o "." \o Digits(BToInt(h.r), f)

QuotRem(t) == BDivMod(t.n, t.d)

toFixedText(a, f) == FixedText(QuotRem(toFixed(a, f)), f)

(* ---------------- optional values ---------------- *)

Undefined == <<>>
Some(v) == <<v>>
IsDefined(o) == o # <<>>
\* o ?? dflt
OrElse(o, dflt) == IF o # <<>> THEN o[1] ELSE dflt

(* ---------------- lib/mortgage.ts ---------------- *)

Programs == {"Conventional", "FHA", "VA", "USDA", "Jumbo"}

DEFAULT_CAPS_inclusive(program, ltv) ==
  CASE program = "Conventional" ->
         IF RGe(ltv, RFrac(90, 100)) THEN RFrac(3, 100)
         ELSE IF RGe(ltv, RFrac(75, 100)) THEN RFrac(6, 100)
         ELSE RFrac(9, 100)
    [] program = "FHA" -> RFrac(6, 100)
    [] program = "VA" -> RFrac(4, 100)
    [] program = "USDA" -> RFrac(6, 100)
    [] program = "Jumbo" -> RFrac(3, 100)

DEFAULT_CAPS(program, ltv) ==
  CASE program = "Conventional" ->
         IF RGt(ltv, RFrac(90, 100)) THEN RFrac(3, 100)
         ELSE IF RGt(ltv, RFrac(75, 100)) THEN RFrac(6, 100)
         ELSE RFrac(9, 100)
    [] program = "FHA" -> RFrac(6, 100)
    [] program = "VA" -> RFrac(4, 100)
    [] program = "USDA" -> RFrac(6, 100)
    [] program = "Jumbo" -> RFrac(3, 100)

\* line 28, pow being Math.pow(1 + r, n)
annuity(loan, r, pow) == RDiv(RMul(loan, RMul(r, pow)), RSub(pow, One))

paymentAlwaysAnnuity(loan, r, termMonths) ==
  annuity(loan, r, MathPow(RAdd(One, r), termMonths))

\* lines 26-28, r being the monthly rate
paymentAtMonthlyRate(loan, r, termMonths) ==
  IF REq(r, Zero) THEN RDiv(loan, RFromInt(termMonths))
  ELSE annuity(loan, r, MathPow(RAdd(One, r), termMonths))

amortPayment(loan, ratePct, termMonths) ==
  paymentAtMonthlyRate(loan, RDiv(RDiv(ratePct, RFromInt(100)), RFromInt(12)),
                       termMonths)

pmiMonthlyAnyType(pmiType, factor, loan) ==
  IF ~IsDefined(pmiType) \/ pmiType = Some("None") THEN Zero
  ELSE IF IsDefined(factor) /\ ~IsNaN(factor[1]) /\ ~REq(factor[1], Zero)
       THEN RDiv(RMul(factor[1], loan), RFromInt(12))
  ELSE Zero

pmiMonthly(pmiType, factor, loan) ==
  IF ~IsDefined(pmiType) \/ pmiType = Some("None") THEN Zero
  ELSE IF pmiType = Some("BPMI") /\ IsDefined(factor)
          /\ ~IsNaN(factor[1]) /\ ~REq(factor[1], Zero)
       THEN RDiv(RMul(factor[1], loan), RFromInt(12))
  ELSE Zero

(* ---------------- lib/fha.ts ---------------- *)

FHA_HIGH_BALANCE_THRESHOLD == 726200

isHighBalanceInclusive(loanAmt) ==
  RGe(loanAmt, RFromInt(FHA_HIGH_BALANCE_THRESHOLD))

\* line 36: const highBalance = loanAmount > FHA_HIGH_BALANCE_THRESHOLD
isHighBalance(loanAmt) == RGt(loanAmt, RFromInt(FHA_HIGH_BALANCE_THRESHOLD))

normalizeLtvZeroAccepted(s) ==
  IF IsDefined(s.ltv) /\ isFinite(s.ltv[1]) /\ RGe(s.ltv[1], Zero)
  THEN Some(s.ltv[1])
  ELSE IF IsDefined(s.loanAmount) /\ isFinite(s.loanAmount[1])
          /\ RGt(s.loanAmount[1], Zero) /\ RGt(s.price, Zero)
       THEN Some(RDiv(s.loanAmount[1], s.price))
  ELSE Undefined

normalizeLtv(s) ==
  IF IsDefined(s.ltv) /\ isFinite(s.ltv[1]) /\ RGt(s.ltv[1], Zero)
  THEN Some(s.ltv[1])
  ELSE IF IsDefined(s.loanAmount) /\ isFinite(s.loanAmount[1])
          /\ RGt(s.loanAmount[1], Zero) /\ RGt(s.price, Zero)
       THEN Some(RDiv(s.loanAmount[1], s.price))
  ELSE Undefined

normalizeLoanAmount(s, ltv) ==
  IF IsDefined(s.loanAmount) /\ isFinite(s.loanAmount[1])
     /\ RGt(s.loanAmount[1], Zero)
  THEN Some(s.loanAmount[1])
  ELSE IF ltv # Undefined /\ RGt(s.price, Zero)
       THEN Some(RMul(s.price, ltv[1]))
  ELSE Undefined

\* lines 37-56: the table, once ltv, loanAmount and termMonths are known
fhaTable(overFifteenYears, highBalance, ltvPct) ==
  IF overFifteenYears
  THEN IF highBalance
       THEN IF RLe(ltvPct, RFrac(90, 100))
            THEN Some(RFrac(55, 10000)) ELSE Some(RFrac(60, 10000))
       ELSE IF RLe(ltvPct, RFrac(90, 100))
            THEN Some(RFrac(50, 10000)) ELSE Some(RFrac(55, 10000))
  ELSE IF highBalance
       THEN IF RLe(ltvPct, RFrac(90, 100))
            THEN Some(RFrac(40, 10000)) ELSE Some(RFrac(65, 10000))
       ELSE IF RLe(ltvPct, RFrac(90, 100))
            THEN Some(RFrac(15, 10000)) ELSE Some(RFrac(40, 10000))

\* lines 30-56, ltv and loanAmt being the normalized values
fhaFactorOf(ltv, loanAmt, termMonths) ==
  IF ltv = Undefined \/ loanAmt = Undefined \/ termMonths = 0
  THEN Undefined
  ELSE fhaTable(termMonths > 180, isHighBalance(loanAmt[1]), ltv[1])

\* lines 28-29, ltv being the normalized LTV
fhaFactorAtLtv(s, ltv) == fhaFactorOf(ltv, normalizeLoanAmount(s, ltv), s.termMonths)

getStandardFhaAnnualMipFactor(s) == fhaFactorAtLtv(s, normalizeLtv(s))

(* ---------------- computeScenario ---------------- *)

loanAmountLtvFirst(s) ==
  IF IsDefined(s.ltv) THEN RMul(s.price, s.ltv[1]) ELSE OrElse(s.loanAmount, Zero)

loanAmount(s) == OrElse(s.loanAmount, RMul(s.price, OrElse(s.ltv, Zero)))

pointsCost(s) == RMul(loanAmount(s), RDiv(s.discountPointsPct, RFromInt(100)))

pctCap(s) ==
  DEFAULT_CAPS(s.program, OrElse(s.ltv, RDiv(loanAmount(s), s.price)))

programCapDollars(s) == RMul(s.price, pctCap(s))

eligibleCosts(s) == RAdd(pointsCost(s), s.closingCosts)

maxUsableCreditIgnoringCap(s) ==
  MathMin(s.sellerCredit, eligibleCosts(s))

maxUsableCredit(s) ==
  MathMin(MathMin(s.sellerCredit, programCapDollars(s)), eligibleCosts(s))

\* 0.125 and 0.50
stepRate == RFrac(1, 8)
stepPointsPct == RFrac(1, 2)

stepCost(s) == RMul(loanAmount(s), RDiv(stepPointsPct, RFromInt(100)))

monthlySave(s, candidateRate) ==
  MathMax(Zero,
          RSub(amortPayment(loanAmount(s), candidateRate, s.termMonths),
               amortPayment(loanAmount(s), RSub(candidateRate, stepRate),
                            s.termMonths)))

breakEven(cost, save) ==
  IF RGt(save, Zero) THEN MathCeil(RDiv(cost, save)) ELSE Infinity

unjustifiedOffByOne(be) == ~isFinite(be) \/ RGt(be, RFromInt(85))

unjustifiedOnlyIfNever(be) == ~isFinite(be)

\* the second exit of the loop: the step does not pay back within 84 months
unjustified(be) == ~isFinite(be) \/ RGt(be, RFromInt(84))

\* the entry pushed on steps for the step down to rate
allocationStep(rate, cost, save) ==
  [rate |-> rate, pointsCost |-> cost, monthlySave |-> save,
   breakEven |-> breakEven(cost, save)]

takenHalfCharged(st, step) ==
  [remaining       |-> RSub(st.remaining, RMul(step.pointsCost, RFrac(1, 2))),
   appliedToPoints |-> RAdd(st.appliedToPoints, step.pointsCost),
   candidateRate   |-> step.rate,
   steps           |-> Append(st.steps, step),
   iterations      |-> st.iterations + 1]

takenKeepingRate(st, step) ==
  [remaining       |-> RSub(st.remaining, step.pointsCost),
   appliedToPoints |-> RAdd(st.appliedToPoints, step.pointsCost),
   candidateRate   |-> st.candidateRate,
   steps           |-> Append(st.steps, step),
   iterations      |-> st.iterations + 1]

\* lines 66-69: the loop variables once step is taken
taken(st, step) ==
  [remaining       |-> RSub(st.remaining, step.pointsCost),
   appliedToPoints |-> RAdd(st.appliedToPoints, step.pointsCost),
   candidateRate   |-> step.rate,
   steps           |-> Append(st.steps, step),
   iterations      |-> st.iterations + 1]

\* a break out of the loop body: the pass counts, the variables stay
break(st) == [st EXCEPT !.iterations = @ + 1]

\* the while loop; st holds remaining, appliedToPoints, candidateRate, steps
\* and the number of passes through the loop body so far
RECURSIVE buydownLoop(_, _)

\* lines 65-71
takeIfJustified(s, st, step) ==
  IF unjustified(step.breakEven) THEN break(st)
  ELSE buydownLoop(s, taken(st, step))

loopBodyPartial(s, st, cost) ==
  IF RGt(cost, st.remaining)
  THEN takeIfJustified(s, st,
         allocationStep(RSub(st.candidateRate, stepRate), st.remaining,
                        monthlySave(s, st.candidateRate)))
  ELSE takeIfJustified(s, st,
         allocationStep(RSub(st.candidateRate, stepRate), cost,
                        monthlySave(s, st.candidateRate)))

\* lines 52-71: one pass of the loop body
loopBody(s, st, cost) ==
  IF RGt(cost, st.remaining) THEN break(st)
  ELSE takeIfJustified(s, st,
         allocationStep(RSub(st.candidateRate, stepRate), cost,
                        monthlySave(s, st.candidateRate)))

buydownLoopAtMostOnce(s, st) ==
  IF ~RGt(st.remaining, Zero) \/ st.iterations >= 1 THEN st
  ELSE loopBody(s, st, stepCost(s))

buydownLoop(s, st) ==
  IF ~RGt(st.remaining, Zero) THEN st ELSE loopBody(s, st, stepCost(s))

\* lines 45-49: the loop variables before the loop
beforeLoop(s) ==
  [remaining       |-> maxUsableCredit(s),
   appliedToPoints |-> Zero,
   candidateRate   |-> s.noteRate,
   steps           |-> <<>>,
   iterations      |-> 0]

buydownIgnoringLock(s) == buydownLoop(s, beforeLoop(s))

lockedOrLooped(s, start) ==
  IF ~(s.lockRate = Some(TRUE)) THEN buydownLoop(s, start) ELSE start

\* lines 48-72: appliedToPoints, newRate and steps after the optional loop
buydown(s) == lockedOrLooped(s, beforeLoop(s))

RECURSIVE sumMonthlySave(_)
sumMonthlySave(steps) ==
  IF steps = <<>> THEN Zero
  ELSE RAdd(sumMonthlySave(SubSeq(steps, 1, Len(steps) - 1)),
            steps[Len(steps)].monthlySave)

appliedSellerCreditUncapped(s, appliedToPoints) ==
  RAdd(appliedToPoints, s.closingCosts)

appliedSellerCreditCostsFirst(s, appliedToPoints) ==
  RAdd(appliedToPoints, MathMin(s.closingCosts, maxUsableCredit(s)))

appliedSellerCredit(s, appliedToPoints) ==
  RAdd(appliedToPoints,
       MathMin(s.closingCosts, RSub(maxUsableCredit(s), appliedToPoints)))

appliedToCostsWhole(applied, appliedToPoints) == applied

appliedToCosts(applied, appliedToPoints) == RSub(applied, appliedToPoints)

capWarning(s) ==
  "Seller credit exceeds typical " \o s.program \o " cap (~"
    \o toFixedText(RMul(pctCap(s), RFromInt(100)), 1) \o "%)."

unusedWarning == "Not all seller credit usable given current costs/points."

warningsCapInclusive(s, applied) ==
  (IF RGe(s.sellerCredit, programCapDollars(s)) THEN <<capWarning(s)>> ELSE <<>>)
  \o (IF RLt(applied, s.sellerCredit) THEN <<unusedWarning>> ELSE <<>>)

warningsSwapped(s, applied) ==
  (IF RLt(applied, s.sellerCredit) THEN <<unusedWarning>> ELSE <<>>)
  \o (IF RGt(s.sellerCredit, programCapDollars(s)) THEN <<capWarning(s)>> ELSE <<>>)

warnings(s, applied) ==
  (IF RGt(s.sellerCredit, programCapDollars(s)) THEN <<capWarning(s)>> ELSE <<>>)
  \o (IF RLt(applied, s.sellerCredit) THEN <<unusedWarning>> ELSE <<>>)

\* appliedToPoints / (sum || 1)
perMonthSaved(appliedToPoints, sum) ==
  RDiv(appliedToPoints, IF IsNaN(sum) \/ REq(sum, Zero) THEN One ELSE sum)

breakEvenMonthsOnPointsCeil(b) ==
  IF Len(b.steps) # 0
  THEN Some(MathCeil(perMonthSaved(b.appliedToPoints, sumMonthlySave(b.steps))))
  ELSE Undefined

breakEvenMonthsOnPoints(b) ==
  IF Len(b.steps) # 0
  THEN Some(MathRound(perMonthSaved(b.appliedToPoints, sumMonthlySave(b.steps))))
  ELSE Undefined

aprEstimateFromNoteRate(s, b) ==
  MathMax(s.noteRate,
          RAdd(s.noteRate,
               RMul(RMul(RDiv(b.appliedToPoints, loanAmount(s)), RFromInt(100)),
                    RDiv(RFromInt(30), RFromInt(360)))))

aprEstimate(s, b) ==
  MathMax(b.candidateRate,
          RAdd(b.candidateRate,
               RMul(RMul(RDiv(b.appliedToPoints, loanAmount(s)), RFromInt(100)),
                    RDiv(RFromInt(30), RFromInt(360)))))

fhaDefaultMipAnyProgram(s) == getStandardFhaAnnualMipFactor(s)

fhaDefaultMip(s) ==
  IF s.program = "FHA" THEN getStandardFhaAnnualMipFactor(s) ELSE Undefined

\* the local constants of one call, b being the outcome of the loop, mip the
\* FHA default factor and applied the seller credit applied
localsOf(s, b, mip, applied) ==
  [pctCap            |-> pctCap(s),
   programCapDollars |-> programCapDollars(s),
   eligibleCosts     |-> eligibleCosts(s),
   maxUsableCredit   |-> maxUsableCredit(s),
   remaining         |-> b.remaining,
   appliedToPoints   |-> b.appliedToPoints,
   newRate           |-> b.candidateRate,
   steps             |-> b.steps,
   iterations        |-> b.iterations,
   pni               |-> amortPayment(loanAmount(s), b.candidateRate, s.termMonths),
   fhaDefaultMip     |-> mip,
   pmiAnnualFactor   |-> IF IsDefined(s.pmiAnnualFactor) THEN s.pmiAnnualFactor ELSE mip,
   pmi               |-> pmiMonthly(s.pmiType,
                           IF IsDefined(s.pmiAnnualFactor) THEN s.pmiAnnualFactor ELSE mip,
                           loanAmount(s)),
   appliedSellerCredit |-> applied,
   appliedToCosts    |-> appliedToCosts(applied, b.appliedToPoints),
   aprEstimate       |-> aprEstimate(s, b),
   warnings          |-> warnings(s, applied),
   breakEvenMonthsOnPoints |-> breakEvenMonthsOnPoints(b)]

afterLoop(s, b) ==
  localsOf(s, b, fhaDefaultMip(s), appliedSellerCredit(s, b.appliedToPoints))

computeLocals(s) == afterLoop(s, buydown(s))

\* line 85
piti(s, l) ==
  RAdd(RAdd(RAdd(RAdd(l.pni, l.pmi), OrElse(s.taxesMonthly, Zero)),
            OrElse(s.insuranceMonthly, Zero)),
       OrElse(s.hoaMonthly, Zero))

cashToCloseNetOfCredit(s, l) ==
  RAdd(RSub(s.price, loanAmount(s)), RSub(s.closingCosts, l.appliedSellerCredit))

\* line 86
cashToClose(s, l) ==
  RAdd(RSub(s.price, loanAmount(s)), RSub(s.closingCosts, l.appliedToCosts))

\* the object literal returned at lines 99-113; it has no finalRate property
returned(s, l) ==
  [loanAmount          |-> loanAmount(s),
   pointsCost          |-> pointsCost(s),
   appliedSellerCredit |-> l.appliedSellerCredit,
   appliedToPoints     |-> l.appliedToPoints,
   appliedToCosts      |-> l.appliedToCosts,
   pAndI               |-> toFixed(l.pni, 2),
   pmiMonthly          |-> toFixed(l.pmi, 2),
   pitiMonthly         |-> toFixed(piti(s, l), 2),
   cashToClose         |-> toFixed(cashToClose(s, l), 2),
   aprEstimate         |-> toFixed(l.aprEstimate, 3),
   breakEvenMonthsOnPoints |-> l.breakEvenMonthsOnPoints,
   warnings            |-> l.warnings,
   allocationSteps     |-> l.steps]

computeScenario(s) == returned(s, computeLocals(s))

\* reading property f of object o: undefined when o has no such property
Prop(o, f) == IF f \in DOMAIN o THEN Some(o[f]) ELSE Undefined

(* ---------------- the state machine ---------------- *)

VARIABLES
  scenario,   \* the ScenarioInput handed to computeScenario
  locals,     \* the local constants of the call, once it has run
  output,     \* the ScenarioOutput returned, once it has run
  fhaInput,   \* the ScenarioLike handed to getStandardFhaAnnualMipFactor
  fhaResult,  \* <<its result>>, once it has run
  requestBody, \* the parsed JSON body of a request to the compare endpoint
  response,   \* <<the list it answers with>>, once it has answered
  scenarios,  \* the page's scenarios state
  templateError,   \* the page's templateError state
  templateMessage, \* the page's templateMessage state
  results,    \* the page's results state
  chatInsights, \* the page's chatInsights state
  isComparing,  \* the page's isComparing state
  request,    \* <<the payload of the compare request in flight>>
  call,       \* the page handler that ran last, with its arguments
  handled     \* the number of page handlers that have run

pageVars == <<scenarios, templateError, templateMessage, results, chatInsights,
              isComparing, request, call, handled>>

vars == <<arithmetic, scenario, locals, output, fhaInput, fhaResult,
          requestBody, response, pageVars>>

MaxTerm == 7
MaxRateEighths == 2

Terms == {1, MaxTerm - 1, MaxTerm}
NoteRates == {RFrac(0, 8), RFrac(MaxRateEighths, 8)}
Ltvs == {Undefined, Some(Zero), Some(RFrac(75, 100)), Some(RFrac(90, 100)),
         Some(RFrac(95, 100))}
LoanAmounts == {Undefined, Some(RFromInt(100000))}
SellerCredits == {Zero, RFromInt(1000), RFromInt(3000), RFromInt(3500)}
ClosingCostsSet == {Zero, RFromInt(1000), RFrac(1000006, 1000), RFromInt(4000)}
DiscountPoints == {Zero, One}
LockRates == {Undefined, Some(FALSE), Some(TRUE)}

AllScenarios ==
  [price             : {RFromInt(100000)},
   ltv               : Ltvs,
   loanAmount        : LoanAmounts,
   program           : Programs,
   termMonths        : Terms,
   noteRate          : NoteRates,
   discountPointsPct : DiscountPoints,
   closingCosts      : ClosingCostsSet,
   sellerCredit      : SellerCredits,
   pmiType           : {Some("BPMI")},
   pmiAnnualFactor   : {Undefined},
   taxesMonthly      : {Undefined},
   insuranceMonthly  : {Undefined},
   hoaMonthly        : {Undefined},
   lockRate          : LockRates]

\* the inputs explored: every LTV for Conventional, whose cap depends on it,
\* and two of them for the programs with a flat cap; a one-month term only
\* at the higher note rate, where every step pays back in 48 months; closing
\* costs with a fraction of a cent only for VA at a one-month term; closing
\* costs above every seller credit only for Jumbo at a one-month term; the
\* term one month short of the longest only for USDA
Scenarios ==
  {s \in AllScenarios :
     /\ s.program = "Conventional" \/ s.ltv \in {Undefined, Some(RFrac(95, 100))}
     /\ s.termMonths = 1 => s.noteRate = RFrac(MaxRateEighths, 8)
     /\ s.closingCosts = RFrac(1000006, 1000)
          => s.program = "VA" /\ s.termMonths = 1 /\ s.lockRate = Undefined
     /\ s.closingCosts = RFromInt(4000)
          => s.program = "Jumbo" /\ s.termMonths = 1 /\ s.lockRate = Undefined
     /\ s.termMonths = MaxTerm - 1
          => /\ s.program = "USDA" /\ s.lockRate = Undefined
             /\ s.noteRate = RFrac(MaxRateEighths, 8)}

PmiTypes == {Undefined, Some("None"), Some("BPMI"), Some("SPMI"), Some("LPMI")}
PmiAnnualFactors == {Undefined, Some(Zero), Some(RFrac(5, 1000))}

\* the inputs explored for the mortgage insurance: every program and PMI
\* type, with and without a factor, at a one-month term
PmiScenarios ==
  [price             : {RFromInt(100000)},
   ltv               : {Undefined, Some(RFrac(90, 100)), Some(RFrac(95, 100))},
   loanAmount        : LoanAmounts,
   program           : Programs,
   termMonths        : {1},
   noteRate          : {RFrac(MaxRateEighths, 8)},
   discountPointsPct : {Zero},
   closingCosts      : {RFromInt(1000)},
   sellerCredit      : {RFromInt(1000)},
   pmiType           : PmiTypes,
   pmiAnnualFactor   : PmiAnnualFactors,
   taxesMonthly      : {Undefined},
   insuranceMonthly  : {Undefined},
   hoaMonthly        : {Undefined},
   lockRate          : {Undefined}]

FhaInputs ==
  [termMonths : {0, 180, 181},
   ltv        : {Undefined, Some(RFrac(-1, 2)), Some(Zero), Some(RFrac(7262, 10000)),
                 Some(RFrac(90, 100)), Some(RFrac(95, 100))},
   loanAmount : {Undefined, Some(RFromInt(-1)), Some(Zero), Some(RFromInt(450000)),
                 Some(RFromInt(726200)), Some(RFromInt(726201))},
   price      : {Zero, RFromInt(500000), RFromInt(1000000)}]

\* a JSON null body
NoBody == [kind |-> "null"]

\* the scenarios sent to the compare endpoint: VA over a one-month term,
\* with every seller credit and lock setting
CompareScenarios ==
  {s \in Scenarios :
     /\ s.program = "VA" /\ s.termMonths = 1
     /\ s.ltv = Undefined /\ s.loanAmount # Undefined
     /\ s.discountPointsPct = One /\ s.closingCosts = RFromInt(1000)}

MaxBatch == 2

\* the request bodies: lists of up to MaxBatch scenarios, a lone scenario
\* object, and null
Bodies ==
  {[kind |-> "array", items |-> items] :
     items \in UNION {[1..n -> CompareScenarios] : n \in 0..MaxBatch}}
  \cup {[kind |-> "object", value |-> s] : s \in CompareScenarios}
  \cup {NoBody}

\* JSON null, which is neither undefined nor a value
Null == <<"null", "null">>

\* no handler of the page has run
NoCall == [op |-> "none"]

\* the page before it is used
PageAtRest ==
  /\ scenarios = <<>>
  /\ templateError = Null
  /\ templateMessage = Null
  /\ results = <<>>
  /\ chatInsights = <<>>
  /\ isComparing = FALSE
  /\ request = Undefined
  /\ call = NoCall
  /\ handled = 0

NoFhaInput == [termMonths |-> 0, ltv |-> Undefined, loanAmount |-> Undefined,
               price |-> Zero]

NoScenario ==
  [price |-> One, ltv |-> Undefined, loanAmount |-> Undefined,
   program |-> "Conventional", termMonths |-> 1, noteRate |-> Zero,
   discountPointsPct |-> Zero, closingCosts |-> Zero, sellerCredit |-> Zero,
   pmiType |-> Undefined, pmiAnnualFactor |-> Undefined, taxesMonthly |-> Undefined,
   insuranceMonthly |-> Undefined, hoaMonthly |-> Undefined, lockRate |-> Undefined]

Init ==
  /\ arithmetic = "real"
  /\ scenario \in Scenarios
  /\ locals = Undefined
  /\ output = Undefined
  /\ fhaInput = NoFhaInput
  /\ fhaResult = Undefined
  /\ requestBody = NoBody
  /\ response = Undefined
  /\ PageAtRest

\* one call of computeScenario on the scenario
Compute ==
  /\ output = Undefined
  /\ locals' = Some(computeLocals(scenario))
  /\ output' = Some(returned(scenario, locals'[1]))
  /\ UNCHANGED <<arithmetic, scenario, fhaInput, fhaResult, requestBody, response,
                 pageVars>>

Next == Compute

Spec == Init /\ [][Next]_vars

InitPmi ==
  /\ arithmetic = "real"
  /\ scenario \in PmiScenarios
  /\ locals = Undefined
  /\ output = Undefined
  /\ fhaInput = NoFhaInput
  /\ fhaResult = Undefined
  /\ requestBody = NoBody
  /\ response = Undefined
  /\ PageAtRest

SpecPmi == InitPmi /\ [][Next]_vars

\* the inputs explored in double arithmetic: amounts with cents and tenths
\* over a one-month term, where Math.pow returns its argument
DoubleScenarios ==
  {s \in [price             : {RFrac(2000001, 10)},
          ltv               : {Undefined},
          loanAmount        : {Some(RFromInt(228)), Some(RFrac(3133, 10)),
                               Some(RFrac(6199, 10))},
          program           : {"VA"},
          termMonths        : {1},
          noteRate          : {RFrac(1, 4)},
          discountPointsPct : {Zero, One},
          closingCosts      : {RFrac(1, 10), RFrac(1234, 100), RFromInt(1000)},
          sellerCredit      : {RFrac(41, 10), RFrac(57, 10), RFrac(94, 10)},
          pmiType           : {Some("BPMI")},
          pmiAnnualFactor   : {Some(RFrac(5, 1000))},
          taxesMonthly      : {Undefined},
          insuranceMonthly  : {Some(RFrac(1105, 100))},
          hoaMonthly        : {Undefined},
          lockRate          : {Undefined, Some(TRUE)}] :
     s.lockRate = Some(TRUE) => s.sellerCredit = RFrac(41, 10)}

InitDouble ==
  /\ arithmetic = "double"
  /\ scenario \in DoubleScenarios
  /\ locals = Undefined
  /\ output = Undefined
  /\ fhaInput = NoFhaInput
  /\ fhaResult = Undefined
  /\ requestBody = NoBody
  /\ response = Undefined
  /\ PageAtRest

SpecDouble == InitDouble /\ [][Next]_vars

InitFha ==
  /\ arithmetic = "real"
  /\ scenario = NoScenario
  /\ locals = Undefined
  /\ output = Undefined
  /\ fhaInput \in FhaInputs
  /\ fhaResult = Undefined
  /\ requestBody = NoBody
  /\ response = Undefined
  /\ PageAtRest

\* one call of getStandardFhaAnnualMipFactor on the input
Resolve ==
  /\ fhaResult = Undefined
  /\ fhaResult' = Some(getStandardFhaAnnualMipFactor(fhaInput))
  /\ UNCHANGED <<arithmetic, scenario, locals, output, fhaInput, requestBody, response,
                 pageVars>>

NextFha == Resolve

SpecFha == InitFha /\ [][NextFha]_vars

\* route.ts line 6: Array.isArray(scenarios)
IsArray(body) == body.kind = "array"

mapComputeFirst(items) ==
  [i \in 1..Len(items) |-> computeScenario(items[1])]

\* route.ts line 6: items.map(computeScenario)
mapCompute(items) ==
  [i \in 1..Len(items) |-> computeScenario(items[i])]

InitCompare ==
  /\ arithmetic = "real"
  /\ scenario = NoScenario
  /\ locals = Undefined
  /\ output = Undefined
  /\ fhaInput = NoFhaInput
  /\ fhaResult = Undefined
  /\ requestBody \in Bodies
  /\ response = Undefined
  /\ PageAtRest

\* one request to the compare endpoint
POST ==
  /\ response = Undefined
  /\ response' = Some(mapCompute(IF IsArray(requestBody)
                                 THEN requestBody.items ELSE <<>>))
  /\ UNCHANGED <<arithmetic, scenario, locals, output, fhaInput, fhaResult, requestBody,
                 pageVars>>

NextCompare == POST

SpecCompare == InitCompare /\ [][NextCompare]_vars

(* ---------------- app/page.tsx: importing a template ---------------- *)

\* a string is the sequence of its characters
Whitespace == {" "}

RECURSIVE trimStart(_)
trimStart(str) ==
  IF str # <<>> /\ Head(str) \in Whitespace THEN trimStart(Tail(str)) ELSE str

RECURSIVE trimEnd(_)
trimEnd(str) ==
  IF str # <<>> /\ str[Len(str)] \in Whitespace
  THEN trimEnd(SubSeq(str, 1, Len(str) - 1)) ELSE str

\* str.trim()
trim(str) == trimEnd(trimStart(str))

DecimalDigit(d) == <<"0", "1", "2", "3", "4", "5", "6", "7", "8", "9">>[d + 1]

\* `${counter}`
RECURSIVE NatText(_)
NatText(n) ==
  IF n < 10 THEN <<DecimalDigit(n)>>
  ELSE NatText(n \div 10) \o <<DecimalDigit(n % 10)>>

fallback == <<"I", "m", "p", "o", "r", "t", "e", "d", " ",
              "O", "p", "t", "i", "o", "n">>

\* x ?? dflt on a value that may be undefined or null
Nullish(o) == o = Undefined \/ o = Null
orUndefined(o) == IF Nullish(o) THEN Undefined ELSE o
orFalse(o) == IF Nullish(o) THEN Some(FALSE) ELSE o
orZero(o) == IF Nullish(o) THEN Some(Zero) ELSE o

existingNamesAsTyped(existing) ==
  {OrElse(existing[i].name, <<>>) : i \in 1..Len(existing)} \ {<<>>}

\* the trimmed names in use, the empty ones filtered out
existingNames(existing) ==
  {trim(OrElse(existing[i].name, <<>>)) : i \in 1..Len(existing)} \ {<<>>}

\* `${trimmed} (${counter})`
candidate(trimmed, counter) ==
  trimmed \o <<" ", "(">> \o NatText(counter) \o <<")">>

\* the while loop of deriveUniqueName
RECURSIVE firstFree(_, _, _)
firstFree(trimmed, names, counter) ==
  IF candidate(trimmed, counter) \in names
  THEN firstFree(trimmed, names, counter + 1)
  ELSE candidate(trimmed, counter)

uniqueAmong(trimmed, names) ==
  IF trimmed \notin names THEN trimmed ELSE firstFree(trimmed, names, 2)

\* base.trim() || fallback
trimmedOrFallback(str) == IF str = <<>> THEN fallback ELSE str

deriveUniqueName(base, existing) ==
  uniqueAmong(trimmedOrFallback(trim(base)), existingNames(existing))

templateToScenarioZeroDefault(template, existing) ==
  [name              |-> Some(deriveUniqueName(template.title, existing)),
   price             |-> template.price,
   ltv               |-> orZero(template.ltv),
   loanAmount        |-> orZero(template.loanAmount),
   program           |-> template.program,
   termMonths        |-> template.termMonths,
   noteRate          |-> template.noteRate,
   discountPointsPct |-> template.discountPointsPct,
   closingCosts      |-> template.closingCosts,
   sellerCredit      |-> template.sellerCredit,
   pmiType           |-> orUndefined(template.pmiType),
   pmiAnnualFactor   |-> orZero(template.pmiAnnualFactor),
   taxesMonthly      |-> orZero(template.taxesMonthly),
   insuranceMonthly  |-> orZero(template.insuranceMonthly),
   hoaMonthly        |-> orZero(template.hoaMonthly),
   lockRate          |-> orFalse(template.lockRate)]

templateToScenario(template, existing) ==
  [name              |-> Some(deriveUniqueName(template.title, existing)),
   price             |-> template.price,
   ltv               |-> orUndefined(template.ltv),
   loanAmount        |-> orUndefined(template.loanAmount),
   program           |-> template.program,
   termMonths        |-> template.termMonths,
   noteRate          |-> template.noteRate,
   discountPointsPct |-> template.discountPointsPct,
   closingCosts      |-> template.closingCosts,
   sellerCredit      |-> template.sellerCredit,
   pmiType           |-> orUndefined(template.pmiType),
   pmiAnnualFactor   |-> orUndefined(template.pmiAnnualFactor),
   taxesMonthly      |-> orUndefined(template.taxesMonthly),
   insuranceMonthly  |-> orUndefined(template.insuranceMonthly),
   hoaMonthly        |-> orUndefined(template.hoaMonthly),
   lockRate          |-> orFalse(template.lockRate)]

\* the blank scenario of the page
blank ==
  [name              |-> Some(<<"O", "p", "t", "i", "o", "n">>),
   price             |-> RFromInt(450000),
   ltv               |-> Some(RFrac(95, 100)),
   loanAmount        |-> Undefined,
   program           |-> "Conventional",
   termMonths        |-> 360,
   noteRate          |-> RFrac(6875, 1000),
   discountPointsPct |-> Zero,
   closingCosts      |-> RFromInt(9000),
   sellerCredit      |-> RFromInt(12000),
   pmiType           |-> Some("BPMI"),
   pmiAnnualFactor   |-> Some(RFrac(6, 1000)),
   taxesMonthly      |-> Some(RFromInt(350)),
   insuranceMonthly  |-> Some(RFromInt(110)),
   hoaMonthly        |-> Some(Zero),
   lockRate          |-> Some(FALSE)]

named(s, name) == [s EXCEPT !.name = name]

OptionA == <<"O", "p", "t", "i", "o", "n", " ", "A">>
OptionB == <<"O", "p", "t", "i", "o", "n", " ", "B">>

\* the scenarios the page starts with
initialScenarios == <<named(blank, Some(OptionA)), named(blank, Some(OptionB))>>

\* the four things a stored optional field can hold: nothing, null, an
\* explicit zero, a value
Stored(k, zero, v) ==
  CASE k % 4 = 0 -> Undefined
    [] k % 4 = 1 -> Null
    [] k % 4 = 2 -> Some(zero)
    [] k % 4 = 3 -> Some(v)

Titles ==
  {<<>>, <<" ">>, <<"A">>, <<" ", "A", " ">>, <<"A", " ", "(", "2", ")">>,
   OptionA}

\* a stored template whose optional fields hold the cases numbered p and q,
\* the cases of the fields staggered against each other
Template(p, q, title) ==
  [title             |-> title,
   price             |-> RFromInt(300000),
   ltv               |-> Stored(p, Zero, RFrac(95, 100)),
   loanAmount        |-> Stored(p + 1, Zero, RFromInt(100000)),
   program           |-> "FHA",
   termMonths        |-> 180,
   noteRate          |-> RFrac(5, 8),
   discountPointsPct |-> One,
   closingCosts      |-> RFromInt(1000),
   sellerCredit      |-> Zero,
   pmiType           |-> Stored(q + 2, "None", "BPMI"),
   pmiAnnualFactor   |-> Stored(q, Zero, RFrac(5, 1000)),
   taxesMonthly      |-> Stored(q + 1, Zero, RFromInt(350)),
   insuranceMonthly  |-> Stored(p + q, Zero, RFromInt(110)),
   hoaMonthly        |-> Stored(p + 2, Zero, RFromInt(25)),
   lockRate          |-> Stored(p + 3, FALSE, TRUE)]

\* o ?? null
orNull(o) == IF Nullish(o) THEN Null ELSE o

\* the template the templates endpoint stores for a valid request and
\* answers with
createTemplate(title, s) ==
  [title             |-> trim(title),
   price             |-> s.price,
   ltv               |-> orNull(s.ltv),
   loanAmount        |-> orNull(s.loanAmount),
   program           |-> s.program,
   termMonths        |-> s.termMonths,
   noteRate          |-> s.noteRate,
   discountPointsPct |-> s.discountPointsPct,
   closingCosts      |-> s.closingCosts,
   sellerCredit      |-> s.sellerCredit,
   pmiType           |-> orNull(s.pmiType),
   pmiAnnualFactor   |-> orNull(s.pmiAnnualFactor),
   taxesMonthly      |-> orNull(s.taxesMonthly),
   insuranceMonthly  |-> orNull(s.insuranceMonthly),
   hoaMonthly        |-> orNull(s.hoaMonthly),
   lockRate          |-> orFalse(s.lockRate)]

\* the templates on offer: every case of each optional field under one
\* title, every title, and two templates saved from scenarios
Templates ==
  {Template(p, (p + q) % 4, <<"A">>) : p \in 0..3, q \in 0..1}
  \cup {Template(0, 0, title) : title \in Titles}
  \cup {createTemplate(<<"B", " ">>, blank),
        createTemplate(<<"B">>, [NoScenario EXCEPT !.program = "VA"])}

MaxScenarios == 4

\* the name fields the page's first scenario may have been edited to
EditedNames ==
  {Some(OptionA), Some(OptionB), Some(<<>>), Some(<<" ">>), Some(<<"A">>),
   Some(<<" ", "A">>), Some(<<"A", " ", "(", "2", ")">>), Some(fallback)}

\* and those of the second
SecondNames == {Some(OptionB), Some(<<" ", "A">>), Some(<<"A", " ", "(", "2", ")">>)}

InitImport ==
  /\ arithmetic = "real"
  /\ scenario = NoScenario
  /\ locals = Undefined
  /\ output = Undefined
  /\ fhaInput = NoFhaInput
  /\ fhaResult = Undefined
  /\ requestBody = NoBody
  /\ response = Undefined
  /\ scenarios \in {<<named(blank, a), named(blank, b)>> :
                      a \in EditedNames, b \in SecondNames}
  /\ templateError = Null
  /\ templateMessage = Null
  /\ results = <<>>
  /\ chatInsights = <<>>
  /\ isComparing = FALSE
  /\ request = Undefined
  /\ call = NoCall
  /\ handled = 0

\* the Import button of one of the templates on offer
Import(offered) ==
  \E template \in offered :
    /\ Len(scenarios) < MaxScenarios
    /\ templateError' = Null
    /\ scenarios' = Append(scenarios, templateToScenario(template, scenarios))
    /\ templateMessage' = Some([imported |-> template.title])
    /\ call' = [op |-> "importTemplate", template |-> template]
    /\ handled' = handled + 1
    /\ UNCHANGED <<arithmetic, scenario, locals, output, fhaInput, fhaResult, requestBody,
                   response, results, chatInsights, isComparing, request>>

importTemplate == Import(Templates)

NextImport == importTemplate

SpecImport == InitImport /\ [][NextImport]_vars

(* ---------------- app/page.tsx: editing a scenario ---------------- *)

\* a patch is a record of the fields it holds: f is in the patch when f is in
\* its domain
In(f, patch) == f \in DOMAIN patch

\* { ...current, ...patch }
merged(current, patch) ==
  [f \in DOMAIN current |-> IF In(f, patch) THEN patch[f] ELSE current[f]]

shouldAutoFhaPmiEvenIfGiven(m, patch) ==
  /\ m.program = "FHA"
  /\ \/ In("program", patch) \/ In("ltv", patch) \/ In("loanAmount", patch)
     \/ In("price", patch) \/ In("termMonths", patch)

\* lines 569-576
shouldAutoFhaPmi(m, patch) ==
  /\ m.program = "FHA"
  /\ ~In("pmiAnnualFactor", patch)
  /\ \/ In("program", patch) \/ In("ltv", patch) \/ In("loanAmount", patch)
     \/ In("price", patch) \/ In("termMonths", patch)

\* lines 581-583: merged.pmiType once the factor is known
pmiTypeDefaulted(m, patch) ==
  IF ~In("pmiType", patch) /\ m.pmiType # Some("None")
  THEN (IF Nullish(m.pmiType) THEN Some("BPMI") ELSE m.pmiType)
  ELSE m.pmiType

\* lines 579-586
autoFilled(m, patch, fhaFactor) ==
  IF fhaFactor # Undefined
  THEN [m EXCEPT !.pmiType = pmiTypeDefaulted(m, patch),
                 !.pmiAnnualFactor = Some(toFixed(fhaFactor[1], 4))]
  ELSE m

\* lines 566-588: the scenario that replaces current
patched(m, patch) ==
  IF shouldAutoFhaPmi(m, patch)
  THEN autoFilled(m, patch, getStandardFhaAnnualMipFactor(m))
  ELSE m

\* the patches the inputs of the form send, one field each
FormPatches ==
  {[name |-> Some(<<"X">>)], [lockRate |-> Some(TRUE)],
   [price |-> Zero], [price |-> RFromInt(1000000)],
   [ltv |-> Some(Zero)], [ltv |-> Some(RFrac(90, 100))],
   [program |-> "FHA"], [program |-> "VA"],
   [termMonths |-> 0], [termMonths |-> 181],
   [pmiType |-> Some("None")], [pmiType |-> Some("SPMI")],
   [pmiAnnualFactor |-> Some(RFrac(1, 1000))]}

\* patches of several fields, which Partial<ScenarioInput> admits
WiderPatches ==
  {[program |-> "FHA", pmiAnnualFactor |-> Some(RFrac(2, 1000))],
   [program |-> "FHA", pmiType |-> Some("LPMI")],
   [ltv |-> Some(RFrac(95, 100)), pmiType |-> Some("None")],
   [loanAmount |-> Some(RFromInt(800000))]}

Patches == FormPatches \cup WiderPatches

MaxEdits == 1

\* the scenarios next to Option A: imported ones, with and without an LTV,
\* a loan amount, a PMI type and a factor
EditedScenarios ==
  {templateToScenario(Template(p, q, <<"A">>), <<>>) :
     p \in {0, 2, 3}, q \in {0, 1, 2}}

InitUpdate ==
  /\ arithmetic = "real"
  /\ scenario = NoScenario
  /\ locals = Undefined
  /\ output = Undefined
  /\ fhaInput = NoFhaInput
  /\ fhaResult = Undefined
  /\ requestBody = NoBody
  /\ response = Undefined
  /\ scenarios \in {<<named(blank, Some(OptionA)), s>> : s \in EditedScenarios}
  /\ templateError = Null
  /\ templateMessage = Null
  /\ results = <<>>
  /\ chatInsights = <<>>
  /\ isComparing = FALSE
  /\ request = Undefined
  /\ call = NoCall
  /\ handled = 0

\* a change of an input of the scenario at index, one of at most most
\* handler runs
Update(patches, most) ==
  \E index \in 1..Len(scenarios), patch \in patches :
    /\ handled < most
    /\ scenarios' = [scenarios EXCEPT
                       ![index] = patched(merged(scenarios[index], patch), patch)]
    /\ call' = [op |-> "update", index |-> index, patch |-> patch]
    /\ handled' = handled + 1
    /\ UNCHANGED <<arithmetic, scenario, locals, output, fhaInput, fhaResult,
                   requestBody, response, templateError, templateMessage,
                   results, chatInsights, isComparing, request>>

update == Update(Patches, MaxEdits)

NextUpdate == update

SpecUpdate == InitUpdate /\ [][NextUpdate]_vars

(* ---------------- app/page.tsx: analyzeScenarios ---------------- *)

\* lines 78-79: the final rate the page shows for scenario s with output o
finalRate(s, o) ==
  IF Prop(o, "finalRate") # Undefined THEN Prop(o, "finalRate")[1]
  ELSE IF o.allocationSteps # <<>>
       THEN o.allocationSteps[Len(o.allocationSteps)].rate
       ELSE s.noteRate

\* the characters of a program's name
ProgramText(program) ==
  CASE program = "Conventional" ->
         <<"C", "o", "n", "v", "e", "n", "t", "i", "o", "n", "a", "l">>
    [] program = "FHA" -> <<"F", "H", "A">>
    [] program = "VA" -> <<"V", "A">>
    [] program = "USDA" -> <<"U", "S", "D", "A">>
    [] program = "Jumbo" -> <<"J", "u", "m", "b", "o">>

\* line 77: scenario.name?.trim() || scenario.program
displayName(s) ==
  IF trim(OrElse(s.name, <<>>)) # <<>> THEN trim(OrElse(s.name, <<>>))
  ELSE ProgramText(s.program)

\* lines 73-188: the insight on scenario s with output o; its pros and cons
\* are kept as the output they are written from
insight(s, o) ==
  [name |-> displayName(s), program |-> s.program, written |-> o]

\* lines 52-61 and 73: no insight without inputs or outputs, and one for
\* every input that has an output
analyzeScenarios(inputs, outputs) ==
  IF Len(inputs) = 0 \/ Len(outputs) = 0 THEN <<>>
  ELSE [i \in 1..(IF Len(inputs) < Len(outputs) THEN Len(inputs) ELSE Len(outputs))
          |-> insight(inputs[i], outputs[i])]

(* ---------------- app/page.tsx: running a comparison ---------------- *)

alphabet ==
  <<"A", "B", "C", "D", "E", "F", "G", "H", "I", "J", "K", "L", "M",
    "N", "O", "P", "Q", "R", "S", "T", "U", "V", "W", "X", "Y", "Z">>

\* the do-while loop of optionLabel
RECURSIVE label(_)
label(i) ==
  IF i < 0 THEN <<>>
  ELSE label((i \div 26) - 1) \o <<alphabet[(i % 26) + 1]>>

optionLabel(index) == <<"O", "p", "t", "i", "o", "n", " ">> \o label(index)

\* the output the compare endpoint answers with for scenario s: the result
\* of computeScenario, which does not read the name, kept as the input it is
\* computed from
answered(s) == [computedFrom |-> [f \in DOMAIN s \ {"name"} |-> s[f]]]

\* its answer to a payload: one output for every scenario, in order
answer(payload) == [i \in 1..Len(payload) |-> answered(payload[i])]

\* the ways a compare request ends: a 200 response with the outputs, a
\* response that is not ok with a JSON error body, no response at all
Outcomes(payload) ==
  {[kind |-> "ok", data |-> answer(payload)],
   [kind |-> "not ok", data |-> <<[error |-> "Internal Server Error"]>>],
   [kind |-> "no response", data |-> <<>>]}

settledUnchecked(payload, outcome) ==
  IF outcome.kind # "no response"
  THEN [results |-> outcome.data,
        chatInsights |-> analyzeScenarios(payload, outcome.data)]
  ELSE [results |-> <<>>, chatInsights |-> <<>>]

\* lines 547-557: results and chatInsights once the request has ended
settled(payload, outcome) ==
  IF outcome.kind = "ok"
  THEN [results |-> outcome.data,
        chatInsights |-> analyzeScenarios(payload, outcome.data)]
  ELSE [results |-> <<>>, chatInsights |-> <<>>]

MaxHandled == 4

\* the page as it loads
InitPage ==
  /\ arithmetic = "real"
  /\ scenario = NoScenario
  /\ locals = Undefined
  /\ output = Undefined
  /\ fhaInput = NoFhaInput
  /\ fhaResult = Undefined
  /\ requestBody = NoBody
  /\ response = Undefined
  /\ scenarios = initialScenarios
  /\ templateError = Null
  /\ templateMessage = Null
  /\ results = <<>>
  /\ chatInsights = <<>>
  /\ isComparing = FALSE
  /\ request = Undefined
  /\ call = NoCall
  /\ handled = 0

\* lines 537-545: a click on Run Comparison, which is disabled while
\* isComparing; the payload is a copy of the scenarios
compare ==
  /\ ~isComparing
  /\ handled < MaxHandled
  /\ isComparing' = TRUE
  /\ request' = Some(scenarios)
  /\ call' = [op |-> "compare"]
  /\ handled' = handled + 1
  /\ UNCHANGED <<arithmetic, scenario, locals, output, fhaInput, fhaResult,
                 requestBody, response, scenarios, templateError,
                 templateMessage, results, chatInsights>>

\* lines 546-560: the rest of compare, once the request has ended
compareSettled ==
  /\ request # Undefined
  /\ \E outcome \in Outcomes(request[1]) :
       /\ results' = settled(request[1], outcome).results
       /\ chatInsights' = settled(request[1], outcome).chatInsights
       /\ call' = [op |-> "compare settled", outcome |-> outcome.kind]
  /\ isComparing' = FALSE
  /\ request' = Undefined
  /\ UNCHANGED <<arithmetic, scenario, locals, output, fhaInput, fhaResult,
                 requestBody, response, scenarios, templateError,
                 templateMessage, handled>>

\* lines 593-598
addScenario ==
  /\ Len(scenarios) < MaxScenarios
  /\ handled < MaxHandled
  /\ scenarios' = Append(scenarios,
                         named(blank, Some(optionLabel(Len(scenarios)))))
  /\ call' = [op |-> "addScenario"]
  /\ handled' = handled + 1
  /\ UNCHANGED <<arithmetic, scenario, locals, output, fhaInput, fhaResult,
                 requestBody, response, templateError, templateMessage,
                 results, chatInsights, isComparing, request>>

\* the edits made while comparing: a new name, a switch to FHA
PagePatches == {[name |-> Some(<<"X">>)], [program |-> "FHA"]}

updateOnPage == Update(PagePatches, MaxHandled)

\* the one template saved
PageTemplates == {Template(0, 0, <<"A">>)}

importOnPage == Import(PageTemplates)

NextPage ==
  \/ compare
  \/ compareSettled
  \/ updateOnPage
  \/ addScenario
  \/ importOnPage

SpecPage == InitPage /\ [][NextPage]_vars

(* ---------------- properties ---------------- *)

Computed == output # Undefined
out == output[1]
loc == locals[1]
Resolved == fhaResult # Undefined

\* C1: with lockRate = true no buydown step is taken: appliedToPoints is 0,
\* allocationSteps is empty and pAndI is the amortized payment at the
\* unchanged noteRate, whatever the credit, the costs and the program are
C1_LockedTakesNoStep ==
  (Computed /\ scenario.lockRate = Some(TRUE)) =>
    /\ REq(out.appliedToPoints, Zero)
    /\ out.allocationSteps = <<>>
    /\ REq(loc.newRate, scenario.noteRate)
    /\ REq(out.pAndI,
           toFixed(amortPayment(out.loanAmount, scenario.noteRate,
                                scenario.termMonths), 2))

\* a locked scenario whose usable credit would have paid for a step
C1_Witness ==
  /\ Computed
  /\ scenario.lockRate = Some(TRUE)
  /\ scenario.termMonths = 1
  /\ RGt(stepCost(scenario), Zero)
  /\ RGe(loc.maxUsableCredit, stepCost(scenario))
  /\ REq(out.appliedToPoints, Zero)

\* C2: every entry of allocationSteps has monthlySave > 0 and breakEven <= 84;
\* a candidate step with zero saving or a longer break-even is never recorded
C2_StepsAreJustified ==
  Computed =>
    \A i \in 1..Len(out.allocationSteps) :
      /\ RGt(out.allocationSteps[i].monthlySave, Zero)
      /\ RLe(out.allocationSteps[i].breakEven, RFromInt(84))

\* steps were recorded and the loop then stopped with credit for one more
\* step left over: the next candidate was refused for its break-even
C2_Witness ==
  /\ Computed
  /\ Len(out.allocationSteps) >= 1
  /\ RGt(loc.remaining, Zero)
  /\ RGe(loc.remaining, stepCost(scenario))

C4_PointsPlusCosts ==
  Computed =>
    REq(RAdd(out.appliedToPoints, out.appliedToCosts), out.appliedSellerCredit)

C4_Witness ==
  /\ Computed
  /\ RGt(out.appliedToPoints, Zero)
  /\ RGt(out.appliedToCosts, Zero)

\* C5: every output carries a finalRate equal to noteRate minus 0.125 for
\* each entry of allocationSteps
C5_FinalRateReturned ==
  Computed =>
    /\ Prop(out, "finalRate") # Undefined
    /\ REq(Prop(out, "finalRate")[1],
           RSub(scenario.noteRate,
                RMul(stepRate, RFromInt(Len(out.allocationSteps)))))

fhaOut == fhaResult[1]

\* the normalization as the resolver's contract words it
ContractLtv ==
  IF IsDefined(fhaInput.ltv) /\ RGt(fhaInput.ltv[1], Zero) THEN fhaInput.ltv
  ELSE IF IsDefined(fhaInput.loanAmount) /\ RGt(fhaInput.loanAmount[1], Zero)
          /\ RGt(fhaInput.price, Zero)
       THEN Some(RDiv(fhaInput.loanAmount[1], fhaInput.price))
  ELSE Undefined

ContractLoanAmount ==
  IF IsDefined(fhaInput.loanAmount) /\ RGt(fhaInput.loanAmount[1], Zero)
  THEN fhaInput.loanAmount
  ELSE IF ContractLtv # Undefined /\ RGt(fhaInput.price, Zero)
       THEN Some(RMul(fhaInput.price, ContractLtv[1]))
  ELSE Undefined

Determined ==
  ContractLtv # Undefined /\ ContractLoanAmount # Undefined /\ fhaInput.termMonths # 0

\* the decision table: basis points by (long term, high balance, LTV <= 90%)
TableBasisPoints(long, high, low) ==
  CASE long /\ high /\ low -> 55
    [] long /\ high /\ ~low -> 60
    [] long /\ ~high /\ low -> 50
    [] long /\ ~high /\ ~low -> 55
    [] ~long /\ high /\ low -> 40
    [] ~long /\ high /\ ~low -> 65
    [] ~long /\ ~high /\ low -> 15
    [] ~long /\ ~high /\ ~low -> 40

\* C6: when LTV, loan amount and term are determined the resolver returns the
\* table value selected by (termMonths > 180, loanAmount > 726200, LTV <= 0.90),
\* the three boundaries falling in the short / not-high / lower cell
C6_FhaTable ==
  (Resolved /\ Determined) =>
    /\ fhaOut # Undefined
    /\ REq(fhaOut[1],
           RFrac(TableBasisPoints(fhaInput.termMonths > 180,
                                  RGt(ContractLoanAmount[1], RFromInt(726200)),
                                  RLe(ContractLtv[1], RFrac(90, 100))),
                 10000))

\* all three boundaries at once: 0.0015
C6_Witness ==
  /\ Resolved
  /\ fhaInput.termMonths = 180
  /\ fhaInput.ltv = Some(RFrac(90, 100))
  /\ fhaInput.loanAmount = Some(RFromInt(726200))
  /\ fhaOut # Undefined
  /\ REq(fhaOut[1], RFrac(15, 10000))

\* C7: the resolver returns undefined exactly when the LTV and the loan amount
\* cannot both be normalized or termMonths is 0, and a factor otherwise
C7_FhaUndefinedExactly ==
  Resolved => (fhaOut = Undefined <=> ~Determined)

\* a non-zero term and a loan amount, but no LTV: the price is not positive
C7_Witness ==
  /\ Resolved
  /\ fhaInput.termMonths # 0
  /\ IsDefined(fhaInput.loanAmount) /\ RGt(fhaInput.loanAmount[1], Zero)
  /\ ContractLtv = Undefined
  /\ fhaOut = Undefined

effectiveLtv ==
  IF IsDefined(scenario.ltv) THEN scenario.ltv[1]
  ELSE RDiv(out.loanAmount, scenario.price)

\* C8: the cap is, for Conventional, 3% above 0.90 effective LTV, 6% above
\* 0.75 up to 0.90 and 9% up to 0.75; FHA 6%, VA 4%, USDA 6%, Jumbo 3%; the
\* effective LTV is the input ltv when given, else loanAmount / price; and
\* programCapDollars = price * that percentage
C8_ProgramCap ==
  Computed =>
    /\ (scenario.program = "Conventional" /\ RGt(effectiveLtv, RFrac(90, 100)))
         => REq(loc.pctCap, RFrac(3, 100))
    /\ (scenario.program = "Conventional" /\ RGt(effectiveLtv, RFrac(75, 100))
          /\ RLe(effectiveLtv, RFrac(90, 100)))
         => REq(loc.pctCap, RFrac(6, 100))
    /\ (scenario.program = "Conventional" /\ RLe(effectiveLtv, RFrac(75, 100)))
         => REq(loc.pctCap, RFrac(9, 100))
    /\ scenario.program = "FHA" => REq(loc.pctCap, RFrac(6, 100))
    /\ scenario.program = "VA" => REq(loc.pctCap, RFrac(4, 100))
    /\ scenario.program = "USDA" => REq(loc.pctCap, RFrac(6, 100))
    /\ scenario.program = "Jumbo" => REq(loc.pctCap, RFrac(3, 100))
    /\ REq(loc.programCapDollars, RMul(scenario.price, loc.pctCap))

\* Conventional at an LTV of exactly 0.90 given with a disagreeing loan amount
C8_Witness ==
  /\ Computed
  /\ scenario.program = "Conventional"
  /\ scenario.ltv = Some(RFrac(90, 100))
  /\ IsDefined(scenario.loanAmount)
  /\ REq(loc.programCapDollars, RFromInt(6000))

capPctText ==
  CASE REq(loc.pctCap, RFrac(3, 100)) -> "3.0"
    [] REq(loc.pctCap, RFrac(4, 100)) -> "4.0"
    [] REq(loc.pctCap, RFrac(6, 100)) -> "6.0"
    [] REq(loc.pctCap, RFrac(9, 100)) -> "9.0"

capWarningText ==
  "Seller credit exceeds typical " \o scenario.program \o " cap (~"
    \o capPctText \o "%)."

Contains(seq, x) == \E i \in 1..Len(seq) : seq[i] = x

\* C9: the warnings hold the cap warning, with the program and the cap to one
\* decimal, if and only if sellerCredit > programCapDollars
C9_CapWarning ==
  Computed =>
    (Contains(out.warnings, capWarningText)
       <=> RGt(scenario.sellerCredit, loc.programCapDollars))

C9_Witness ==
  /\ Computed
  /\ scenario.program = "Jumbo"
  /\ Contains(out.warnings, "Seller credit exceeds typical Jumbo cap (~3.0%).")

\* C10: the second warning is present if and only if appliedSellerCredit <
\* sellerCredit, the cap warning comes first, and there is no other warning
C10_Warnings ==
  Computed =>
    out.warnings =
      (IF RGt(scenario.sellerCredit, loc.programCapDollars)
       THEN <<capWarningText>> ELSE <<>>)
      \o (IF RLt(out.appliedSellerCredit, scenario.sellerCredit)
          THEN <<"Not all seller credit usable given current costs/points.">>
          ELSE <<>>)

C10_Witness ==
  /\ Computed
  /\ Len(out.warnings) = 2
  /\ out.warnings[2] = "Not all seller credit usable given current costs/points."

\* C11: the monthly PMI is 0 when pmiType is absent or "None", it is
\* factor * loanAmount / 12 for "BPMI" with an effective factor, 0 for "SPMI"
\* and "LPMI" whatever the factor, and 0 for "BPMI" without a factor
C11_PmiMonthly ==
  Computed =>
    /\ (scenario.pmiType = Undefined \/ scenario.pmiType = Some("None"))
         => REq(loc.pmi, Zero)
    /\ (scenario.pmiType = Some("BPMI") /\ IsDefined(loc.pmiAnnualFactor))
         => REq(loc.pmi, RDiv(RMul(loc.pmiAnnualFactor[1], out.loanAmount),
                              RFromInt(12)))
    /\ (scenario.pmiType = Some("SPMI") \/ scenario.pmiType = Some("LPMI"))
         => REq(loc.pmi, Zero)
    /\ (scenario.pmiType = Some("BPMI") /\ ~IsDefined(loc.pmiAnnualFactor))
         => REq(loc.pmi, Zero)
    /\ REq(out.pmiMonthly, toFixed(loc.pmi, 2))

\* borrower-paid insurance at a supplied factor of 0.005 on a loan of 100000:
\* 41.67 a month
C11_Witness ==
  /\ Computed
  /\ scenario.pmiType = Some("BPMI")
  /\ scenario.pmiAnnualFactor = Some(RFrac(5, 1000))
  /\ scenario.loanAmount = Some(RFromInt(100000))
  /\ REq(out.pmiMonthly, RFrac(4167, 100))

\* C12: the effective PMI annual factor is the input pmiAnnualFactor whenever
\* one is supplied, for every program; with none supplied it is the FHA
\* resolver's result for FHA, undefined when the resolver returns undefined or
\* the program is not FHA
C12_EffectiveFactor ==
  Computed =>
    /\ IsDefined(scenario.pmiAnnualFactor)
         => loc.pmiAnnualFactor = scenario.pmiAnnualFactor
    /\ (~IsDefined(scenario.pmiAnnualFactor) /\ scenario.program = "FHA")
         => loc.pmiAnnualFactor = getStandardFhaAnnualMipFactor(scenario)
    /\ (~IsDefined(scenario.pmiAnnualFactor) /\ scenario.program # "FHA")
         => loc.pmiAnnualFactor = Undefined
    /\ (~IsDefined(scenario.pmiAnnualFactor) /\ scenario.program = "FHA"
          /\ ~IsDefined(scenario.ltv) /\ ~IsDefined(scenario.loanAmount))
         => loc.pmiAnnualFactor = Undefined

\* FHA without a supplied factor at an LTV of 0.95: the resolver's 0.0040
C12_Witness ==
  /\ Computed
  /\ scenario.program = "FHA"
  /\ ~IsDefined(scenario.pmiAnnualFactor)
  /\ scenario.ltv = Some(RFrac(95, 100))
  /\ IsDefined(loc.pmiAnnualFactor)
  /\ REq(loc.pmiAnnualFactor[1], RFrac(40, 10000))

\* C13: the output loanAmount is the input loanAmount whenever one is provided,
\* even with a disagreeing ltv, else price * ltv, and 0 when neither is
\* provided; pointsCost is loanAmount * discountPointsPct / 100
C13_LoanAmountAndPoints ==
  Computed =>
    /\ IsDefined(scenario.loanAmount)
         => REq(out.loanAmount, scenario.loanAmount[1])
    /\ (~IsDefined(scenario.loanAmount) /\ IsDefined(scenario.ltv))
         => REq(out.loanAmount, RMul(scenario.price, scenario.ltv[1]))
    /\ (~IsDefined(scenario.loanAmount) /\ ~IsDefined(scenario.ltv))
         => REq(out.loanAmount, Zero)
    /\ REq(out.pointsCost,
           RDiv(RMul(out.loanAmount, scenario.discountPointsPct), RFromInt(100)))

\* a loan amount of 100000 given together with an ltv of 0.90 on a price of
\* 100000, at one discount point
C13_Witness ==
  /\ Computed
  /\ scenario.loanAmount = Some(RFromInt(100000))
  /\ scenario.ltv = Some(RFrac(90, 100))
  /\ REq(out.loanAmount, RFromInt(100000))
  /\ REq(out.pointsCost, RFromInt(1000))

C14_ZeroCostPass ==
  /\ Computed
  /\ REq(out.loanAmount, Zero)
  /\ RGt(loc.maxUsableCredit, Zero)
  /\ loc.iterations = 1

\* the monthly rate of the final note rate, and (1 + r)^termMonths
finalMonthlyRate == RDiv(RDiv(loc.newRate, RFromInt(100)), RFromInt(12))
finalGrowth == MathPow(RAdd(One, finalMonthlyRate), scenario.termMonths)

\* C15: at a rate of exactly 0 the payment is loanAmount / termMonths, a finite
\* number, for a positive termMonths; at a non-zero monthly rate r it is
\* loanAmount * r * (1 + r)^term / ((1 + r)^term - 1)
C15_AmortPayment ==
  Computed =>
    /\ REq(loc.newRate, Zero)
         => /\ isFinite(loc.pni)
            /\ REq(loc.pni, RDiv(out.loanAmount, RFromInt(scenario.termMonths)))
    /\ ~REq(loc.newRate, Zero)
         => REq(loc.pni,
                RDiv(RMul(RMul(out.loanAmount, finalMonthlyRate), finalGrowth),
                     RSub(finalGrowth, One)))

\* two steps down from 0.25% to exactly 0% on a loan of 100000 over 7 months
C15_Witness ==
  /\ Computed
  /\ scenario.termMonths = MaxTerm
  /\ Len(out.allocationSteps) = 2
  /\ REq(loc.newRate, Zero)
  /\ REq(out.loanAmount, RFromInt(100000))
  /\ REq(loc.pni, RFrac(100000, MaxTerm))

C17_CashToClose ==
  Computed =>
    REq(out.cashToClose,
        toFixed(RAdd(RSub(scenario.price, out.loanAmount),
                     RSub(scenario.closingCosts, out.appliedToCosts)), 2))

\* closing costs of 1000.006 with the whole credit of 1000 spent on two
\* steps: 1000.01 to close
C17_Witness ==
  /\ Computed
  /\ REq(out.appliedToPoints, RFromInt(1000))
  /\ REq(out.appliedToCosts, Zero)
  /\ scenario.closingCosts = RFrac(1000006, 1000)
  /\ REq(out.loanAmount, scenario.price)
  /\ REq(out.cashToClose, RFrac(100001, 100))

\* the monthly savings of the first n recorded steps, added up
RECURSIVE SavedPerMonth(_)
SavedPerMonth(n) ==
  IF n = 0 THEN Zero
  ELSE RAdd(SavedPerMonth(n - 1), out.allocationSteps[n].monthlySave)

totalSaved == SavedPerMonth(Len(out.allocationSteps))

\* C18: breakEvenMonthsOnPoints is defined if and only if allocationSteps is
\* not empty, and is then round(appliedToPoints / S), S being the sum of
\* monthlySave over all steps, replaced by 1 when it is 0
C18_BreakEvenSummary ==
  Computed =>
    /\ IsDefined(out.breakEvenMonthsOnPoints) <=> out.allocationSteps # <<>>
    /\ out.allocationSteps # <<>>
         => REq(out.breakEvenMonthsOnPoints[1],
                MathRound(RDiv(out.appliedToPoints,
                               IF REq(totalSaved, Zero) THEN One ELSE totalSaved)))

\* more than one step, and a quotient that rounds down: 82.29 at a term of
\* 6 months
C18_Witness ==
  /\ Computed
  /\ Len(out.allocationSteps) >= 2
  /\ IsDefined(out.breakEvenMonthsOnPoints)
  /\ RLt(out.breakEvenMonthsOnPoints[1], RDiv(out.appliedToPoints, totalSaved))

\* a and b are the same number value, NaN included
SameValue(a, b) == (IsNaN(a) /\ IsNaN(b)) \/ REq(a, b)

\* finalRate + (appliedToPoints / loanAmount * 100) * (30 / 360)
aprWithPoints ==
  RAdd(loc.newRate,
       RMul(RMul(RDiv(out.appliedToPoints, out.loanAmount), RFromInt(100)),
            RDiv(RFromInt(30), RFromInt(360))))

imported == scenarios[Len(scenarios)]

RequiredFields ==
  {"price", "program", "termMonths", "noteRate", "discountPointsPct",
   "closingCosts", "sellerCredit"}

OptionalFields ==
  {"ltv", "loanAmount", "pmiType", "pmiAnnualFactor", "taxesMonthly",
   "insuranceMonthly", "hoaMonthly"}

\* C21: an imported scenario has the template's required fields; each of its
\* optional fields ltv, loanAmount, pmiType, pmiAnnualFactor, taxesMonthly,
\* insuranceMonthly and hoaMonthly is undefined when the template holds null
\* or nothing there and is the template's value otherwise, an explicit zero
\* included; its lockRate is false when the template holds null or nothing
C21_TemplateToScenario ==
  call.op = "importTemplate" =>
    /\ \A f \in RequiredFields : imported[f] = call.template[f]
    /\ \A f \in OptionalFields :
         imported[f] = IF call.template[f] \in {Undefined, Null}
                       THEN Undefined ELSE call.template[f]
    /\ imported.lockRate = IF call.template.lockRate \in {Undefined, Null}
                           THEN Some(FALSE) ELSE call.template.lockRate

\* an import of a template holding an explicit zero LTV, nothing for the HOA
\* dues and null for the insurance and the lock
C21_Witness ==
  /\ call.op = "importTemplate"
  /\ call.template.ltv = Some(Zero) /\ imported.ltv = Some(Zero)
  /\ call.template.hoaMonthly = Undefined /\ imported.hoaMonthly = Undefined
  /\ call.template.lockRate = Null /\ imported.lockRate = Some(FALSE)
  /\ \E f \in OptionalFields : call.template[f] = Null /\ imported[f] = Undefined

\* the allocation steps returned and the cost loanAmount * 0.5% of one step
steps == out.allocationSteps
wholeStep == RMul(out.loanAmount, RFrac(5, 1000))

\* the sum of the first n entries' pointsCost, added up in list order
RECURSIVE PointsCostSum(_)
PointsCostSum(n) ==
  IF n = 0 THEN Zero ELSE RAdd(PointsCostSum(n - 1), steps[n].pointsCost)

\* |a - b| <= |b| * 2^-50
Close(a, b) ==
  RLe(Num(FALSE, ExactSum(a, RNeg(b)).n, ExactSum(a, RNeg(b)).d),
      ExactProduct(Num(FALSE, b.n, b.d), Num(FALSE, <<1>>, BPow2(50))))

RECURSIVE RemainingAfter(_)
RemainingAfter(i) ==
  IF i = 0 THEN loc.maxUsableCredit
  ELSE RSub(RemainingAfter(i - 1), wholeStep)

\* the candidate rate once the first i steps are taken
RateAfter(i) == IF i = 0 THEN scenario.noteRate ELSE steps[i].rate

\* after i steps a further step is affordable and pays back within 84 months
Acceptable(i, left, save) ==
  /\ RGt(left, Zero)
  /\ RGe(left, wholeStep)
  /\ RGt(save, Zero)
  /\ RLe(MathCeil(RDiv(wholeStep, save)), RFromInt(84))

AcceptableAfter(i) ==
  Acceptable(i, RemainingAfter(i), monthlySave(scenario, RateAfter(i)))

\* C23: when lockRate is not true the accepted steps are the longest run of
\* consecutive candidates that are each affordable (remaining credit positive
\* and at least stepCost) and justified (monthlySave positive and
\* ceil(stepCost / monthlySave) <= 84); the candidate after the last accepted
\* step fails one of these, and the remaining credit is never negative
C23_GreedyPrefix ==
  (Computed /\ scenario.lockRate # Some(TRUE)) =>
    /\ \A i \in 0..(Len(steps) - 1) : AcceptableAfter(i)
    /\ ~AcceptableAfter(Len(steps))
    /\ REq(loc.remaining, RemainingAfter(Len(steps)))
    /\ RGe(loc.remaining, Zero)

\* steps were taken and the loop then stopped at an unjustified step although
\* the credit left would have paid for it
C23_Witness ==
  /\ Computed
  /\ scenario.lockRate # Some(TRUE)
  /\ Len(steps) >= 1
  /\ RGe(loc.remaining, wholeStep)
  /\ ~AcceptableAfter(Len(steps))

\* C24: pAndI is the payment at the rate of the last entry of allocationSteps,
\* or at noteRate when there is no entry, which is also the final rate the
\* comparison page derives for the output
C24_RateOfPayment ==
  Computed =>
    /\ REq(loc.newRate, RateAfter(Len(steps)))
    /\ REq(loc.newRate, finalRate(scenario, out))
    /\ REq(out.pAndI,
           toFixed(amortPayment(out.loanAmount, finalRate(scenario, out),
                                scenario.termMonths), 2))

\* two steps were taken and the payment is below the one at the note rate
C24_Witness ==
  /\ Computed
  /\ Len(steps) >= 2
  /\ RLt(out.pAndI,
         toFixed(amortPayment(out.loanAmount, scenario.noteRate,
                              scenario.termMonths), 2))
  /\ REq(finalRate(scenario, out), steps[Len(steps)].rate)

C26_SplitWithinBounds ==
  (/\ Computed
   /\ RGe(scenario.price, Zero) /\ RGe(out.loanAmount, Zero)
   /\ RGe(scenario.discountPointsPct, Zero)
   /\ RGe(scenario.closingCosts, Zero) /\ RGe(scenario.sellerCredit, Zero)) =>
    /\ RGe(out.appliedToCosts, Zero)
    /\ RLe(out.appliedToCosts, scenario.closingCosts)
    /\ RGe(out.appliedToPoints, Zero)
    /\ RLe(out.appliedToPoints, loc.maxUsableCredit)
    /\ RGe(RSub(scenario.closingCosts, out.appliedToCosts), Zero)

\* C27: a defined breakEvenMonthsOnPoints is at most 84, every accepted step
\* having stepCost / monthlySave <= 84
C27_BreakEvenWithinSevenYears ==
  (Computed /\ out.breakEvenMonthsOnPoints # Undefined) =>
    /\ \A i \in 1..Len(steps) :
         RLe(RDiv(steps[i].pointsCost, steps[i].monthlySave), RFromInt(84))
    /\ RLe(out.breakEvenMonthsOnPoints[1], RFromInt(84))

\* several steps were taken and the loop stopped at one that pays back too late
C27_Witness ==
  /\ Computed
  /\ out.breakEvenMonthsOnPoints # Undefined
  /\ Len(steps) >= 2
  /\ RGt(monthlySave(scenario, RateAfter(Len(steps))), Zero)
  /\ RGt(breakEven(wholeStep, monthlySave(scenario, RateAfter(Len(steps)))),
         RFromInt(84))

\* the names of the scenarios, trimmed
trimmedNames == {trim(scenarios[i].name[1]) : i \in 1..Len(scenarios)}

\* the name given to the scenario an import appends
newName == scenarios'[Len(scenarios')].name[1]

\* the title an import starts from: trimmed, or "Imported Option" when blank
baseName ==
  IF trim(call'.template.title) = <<>>
  THEN <<"I", "m", "p", "o", "r", "t", "e", "d", " ", "O", "p", "t", "i", "o", "n">>
  ELSE trim(call'.template.title)

Numbered(base, n) == base \o <<" ", "(", DecimalDigit(n), ")">>

\* C28: an import names the new scenario with a non-empty name that is not
\* among the trimmed names of the scenarios already there: the trimmed title,
\* or "Imported Option" for a blank title, if that is unused, else that base
\* followed by " (n)" for the smallest n >= 2 not in use; so the scenarios
\* appended by repeated imports never share a name
C28_UniqueName ==
  [][importTemplate =>
       /\ Len(scenarios') = Len(scenarios) + 1
       /\ newName # <<>>
       /\ newName \notin trimmedNames
       /\ baseName \notin trimmedNames => newName = baseName
       /\ baseName \in trimmedNames =>
            \E n \in 2..9 :
              /\ newName = Numbered(baseName, n)
              /\ \A m \in 2..(n - 1) : Numbered(baseName, m) \in trimmedNames
       /\ \A i \in 3..Len(scenarios) : scenarios'[i].name[1] # newName]_vars

\* the same template was imported twice, after a scenario was named like its
\* first numbered variant, so the second import is numbered 3
C28_Witness ==
  /\ Len(scenarios) = 4
  /\ call.op = "importTemplate"
  /\ scenarios[3].name # scenarios[4].name
  /\ scenarios[3].name = Some(call.template.title)
  /\ scenarios[4].name[1] = Numbered(call.template.title, 3)

\* the scenario an update edits, before and after, and the patch
edited == scenarios[call'.index]
after == scenarios'[call'.index]
given == call'.patch

\* the factor the FHA resolver gives for the scenario with the patch laid over it
resolved == getStandardFhaAnnualMipFactor(merged(edited, given))

\* the patch makes the FHA auto-fill run, and the resolver has a factor
AutoFills ==
  /\ merged(edited, given).program = "FHA"
  /\ DOMAIN given \cap {"program", "ltv", "loanAmount", "price", "termMonths"} # {}
  /\ "pmiAnnualFactor" \notin DOMAIN given
  /\ resolved # Undefined

\* C29: update(index, patch) replaces the scenario at index and leaves the
\* others as they were; a pmiAnnualFactor in the patch is stored as given;
\* without one, pmiAnnualFactor becomes the resolver's factor when the merged
\* program is FHA, the patch holds program, ltv, loanAmount, price or
\* termMonths and the resolver has a factor, and keeps its value otherwise;
\* a pmiType of "None" and a pmiType in the patch are kept
C29_UpdateFrame ==
  [][update =>
       /\ Len(scenarios') = Len(scenarios)
       /\ \A j \in 1..Len(scenarios) :
            j # call'.index => scenarios'[j] = scenarios[j]
       /\ \A f \in DOMAIN edited \ {"pmiType", "pmiAnnualFactor"} :
            after[f] = IF f \in DOMAIN given THEN given[f] ELSE edited[f]
       /\ "pmiAnnualFactor" \in DOMAIN given
            => after.pmiAnnualFactor = given.pmiAnnualFactor
       /\ "pmiAnnualFactor" \notin DOMAIN given
            => IF AutoFills
               THEN /\ after.pmiAnnualFactor # Undefined
                    /\ REq(after.pmiAnnualFactor[1], resolved[1])
               ELSE after.pmiAnnualFactor = edited.pmiAnnualFactor
       /\ "pmiType" \in DOMAIN given => after.pmiType = given.pmiType
       /\ ("pmiType" \notin DOMAIN given /\ edited.pmiType = Some("None"))
            => after.pmiType = Some("None")
       /\ ~AutoFills => after.pmiType = merged(edited, given).pmiType]_vars

\* a patch switched Option A to FHA and brought a factor of its own, which
\* was stored as given, next to a scenario without PMI
C29_Witness ==
  /\ call.op = "update"
  /\ call.index = 1
  /\ "pmiAnnualFactor" \in DOMAIN call.patch
  /\ "program" \in DOMAIN call.patch
  /\ scenarios[1].program = "FHA"
  /\ scenarios[1].pmiAnnualFactor = call.patch.pmiAnnualFactor
  /\ scenarios[2].pmiType = Some("None")

\* C30: isComparing is false whenever no compare request is in flight; a
\* compare request that fails leaves results and chatInsights empty; one that
\* succeeds stores the outputs answered for the payload that was sent and the
\* insights on that payload, whatever was edited, added or imported meanwhile
C30_Compare ==
  /\ [](request = Undefined => ~isComparing)
  /\ [][compareSettled =>
          /\ ~isComparing'
          /\ call'.outcome # "ok" => results' = <<>> /\ chatInsights' = <<>>
          /\ call'.outcome = "ok" =>
               /\ Len(results') = Len(request[1])
               /\ \A i \in 1..Len(results') :
                    /\ results'[i] = answered(request[1][i])
                    /\ chatInsights'[i].name = displayName(request[1][i])
                    /\ chatInsights'[i].program = request[1][i].program
                    /\ chatInsights'[i].written = results'[i]
               /\ Len(chatInsights') = Len(results')]_vars

\* a comparison succeeded after the first scenario was renamed and another
\* was added while the request was in flight
C30_Witness ==
  /\ call.op = "compare settled"
  /\ call.outcome = "ok"
  /\ ~isComparing
  /\ Len(results) = 2
  /\ Len(scenarios) = 3
  /\ chatInsights[1].name = OptionA
  /\ scenarios[1].name = Some(<<"X">>)

====
